---------------------------- MODULE Spec2Model ----------------------------
(***************************************************************************)
(* State-machine model of the UEFI kernel loader in src/main.rs: the boot  *)
(* orchestrator `main`, the firmware memory-map translation `load_regions`, *)
(* `load_kernel` and the KernelLoader callbacks (allocate, load, relocate, *)
(* tls) as driven by the ELF library's ElfBinary::load.                    *)
(*                                                                         *)
(* Modelling decisions:                                                    *)
(*  - A u64 is four 16-bit limbs, most significant first, so that the      *)
(*    arithmetic of the code keeps its full 64-bit width.                  *)
(*  - Rust's `+` and `*` on u64 panic on overflow in a build with          *)
(*    overflow checks and wrap in a build without; the build is the        *)
(*    variable overflowChecks, chosen in Init.                             *)
(*  - Physical memory is the byte array mem over [0, MemSize).  The raw    *)
(*    writes of the code (`*address = value`, ptr::copy_nonoverlapping)    *)
(*    are only defined for valid targets, so the kernel images drawn keep  *)
(*    every loadable segment inside memory and every base-relative         *)
(*    relocation target inside memory and 8-byte aligned.                  *)
(*  - Console writes (`writeln!(stdout, ..).unwrap()`) are taken to        *)
(*    succeed.                                                             *)
(***************************************************************************)
EXTENDS Integers, Sequences, FiniteSets, TLC

VARIABLES
    pc,                 \* position of the single thread of control
    overflowChecks,     \* the build: TRUE = overflow panics, FALSE = wraps
    mem,                \* physical memory, byte per address
    memMap,             \* the firmware memory map returned by memory_map()
    image,              \* the parsed kernel image (ElfBinary)
    loader,             \* the KernelLoader { base, regions }
    hdrIdx,             \* next program header ElfBinary::load hands out
    relIdx,             \* next relocation entry ElfBinary::load hands out
    lastCall,           \* the last KernelLoader callback and what it returned
    info,               \* the BootInfo being filled in by main
    entry,              \* the entry point load_kernel returned
    gop,                \* the graphics mode the firmware reported
    bootServicesActive, \* FALSE once exit_boot_services has run
    handoff,            \* what enter_kernel was called with
    stages,             \* the stages completed so far, in order
    fwAfterExit,        \* a firmware service was used after exit_boot_services
    fatal               \* the fatal condition that stopped the boot, if any

vars == <<pc, overflowChecks, mem, memMap, image, loader, hdrIdx, relIdx,
          lastCall, info, entry, gop, bootServicesActive, handoff, stages,
          fwAfterExit, fatal>>

---------------------------------------------------------------------------
(* Bounds of the model.                                                    *)

MaxDescs == 2
MaxHeaders == 2
MaxRelocs == 1
MemSize == 24

---------------------------------------------------------------------------
(* u64 arithmetic on four 16-bit limbs <<l3, l2, l1, l0>>.                 *)

Limb == 256 * 256

U64Zero == <<0, 0, 0, 0>>

U64Max == <<65535, 65535, 65535, 65535>>

\* The u64 of a natural number below 2^31.
U64(n) == <<0, 0, n \div Limb, n % Limb>>

\* The natural number of a u64 below 2^31 (only applied to such values).
NatOf(x) == x[3] * Limb + x[4]

\* x + y: the 64-bit sum and whether it carried out of bit 63.
AddU64(x, y) ==
    LET s0 == x[4] + y[4]
        s1 == x[3] + y[3] + (s0 \div Limb)
        s2 == x[2] + y[2] + (s1 \div Limb)
        s3 == x[1] + y[1] + (s2 \div Limb)
    IN  [val |-> <<s3 % Limb, s2 % Limb, s1 % Limb, s0 % Limb>>,
         overflow |-> s3 \div Limb > 0]

\* x * k for a small constant k: the 64-bit product and whether it overflowed.
MulU64(x, k) ==
    LET p0 == x[4] * k
        p1 == x[3] * k + (p0 \div Limb)
        p2 == x[2] * k + (p1 \div Limb)
        p3 == x[1] * k + (p2 \div Limb)
    IN  [val |-> <<p3 % Limb, p2 % Limb, p1 % Limb, p0 % Limb>>,
         overflow |-> p3 \div Limb > 0]

\* x <= y on u64.
LeU64(x, y) ==
    \/ x[1] < y[1]
    \/ x[1] = y[1] /\ x[2] < y[2]
    \/ x[1] = y[1] /\ x[2] = y[2] /\ x[3] < y[3]
    \/ x[1] = y[1] /\ x[2] = y[2] /\ x[3] = y[3] /\ x[4] <= y[4]

\* The eight bytes of a u64 as x86-64 stores them: least significant first.
BytesOfU64(x) ==
    <<x[4] % 256, x[4] \div 256, x[3] % 256, x[3] \div 256,
      x[2] % 256, x[2] \div 256, x[1] % 256, x[1] \div 256>>

---------------------------------------------------------------------------
(* Data model: RegionKind, Region, Regions, GraphicsInfo, BootInfo.        *)

RegionNew(kind, start, end) == [kind |-> kind, start |-> start, end |-> end]

\* Regions::empty() is the null pointer with length 0; Regions::new(data, len)
\* exposes the leaked vector, modelled as the sequence of its regions.
RegionsEmpty == <<>>

RegionsNew(data) == data

GraphicsInfoNew == [framebuffer |-> 0, width |-> 0, height |-> 0, stride |-> 0]

BootInfoNew ==
    [regions |-> RegionsEmpty, kernel_regions |-> RegionsEmpty,
     graphics |-> GraphicsInfoNew]

---------------------------------------------------------------------------
(* load_regions: the firmware memory map translated into regions.          *)

PAGE_SIZE == 4096

\* The kind of a descriptor: usable RAM is Available, everything else Reserved.
KindOfDescriptor(ty) == IF ty = "CONVENTIONAL" THEN "Available" ELSE "Reserved"

\* `start + descriptor.page_count * 0x1000`: the value computed and whether
\* either operation overflowed.
DescriptorEnd(d) ==
    LET prod == MulU64(d.page_count, PAGE_SIZE)
        sum == AddU64(d.phys_start, prod.val)
    IN  [val |-> sum.val, overflow |-> prod.overflow \/ sum.overflow]

\* One iteration of the loop over memory_map.entries().
RegionOfDescriptor(d) ==
    RegionNew(KindOfDescriptor(d.ty), d.phys_start, DescriptorEnd(d).val)

\* The whole loop: [panicked, regions].  An overflow panics in a build with
\* overflow checks and wraps otherwise.
LoadRegions(map, checks) ==
    IF checks /\ \E i \in 1..Len(map) : DescriptorEnd(map[i]).overflow
    THEN [panicked |-> TRUE, regions |-> RegionsEmpty]
    ELSE [panicked |-> FALSE,
          regions |-> RegionsNew([i \in 1..Len(map) |-> RegionOfDescriptor(map[i])])]

---------------------------------------------------------------------------
(* What the environment can supply.                                        *)

\* Firmware memory map descriptors: usable RAM [0, 0x10000), the adjacent
\* page of boot-services data, and a descriptor of usable RAM whose end,
\* 2^64 - 0x1000 + 2 * 0x1000, is past 2^64 - 1.
Descriptors ==
    { [ty |-> "CONVENTIONAL", phys_start |-> U64Zero, page_count |-> U64(16)],
      [ty |-> "BOOT_SERVICES_DATA", phys_start |-> U64(65536), page_count |-> U64(1)],
      [ty |-> "CONVENTIONAL", phys_start |-> <<65535, 65535, 65535, 61440>>,
       page_count |-> U64(2)] }

SeqsUpTo(S, n) == UNION { [1..k -> S] : k \in 0..n }

MemoryMaps == SeqsUpTo(Descriptors, MaxDescs)

\* Program headers.  A loadable header carries its raw file bytes
\* (file_size = Len(data)) and its mem_size >= file_size; the second one has
\* two bytes of mem_size past its file bytes.
LoadHeaders ==
    { [type |-> "Load", virtual_addr |-> U64Zero, data |-> <<127, 69>>,
       mem_size |-> U64(2)],
      [type |-> "Load", virtual_addr |-> U64(MemSize - 4), data |-> <<76, 70>>,
       mem_size |-> U64(4)] }

OtherHeaders ==
    { [type |-> t, virtual_addr |-> U64Zero, data |-> <<>>, mem_size |-> U64(8)] :
        t \in {"Tls", "Note"} }

ProgramHeaders == LoadHeaders \cup OtherHeaders

\* Relocation entries { rtype, offset, addend: Option<u64> }.
None == <<>>

Some(x) == <<x>>

\* 0x0807060504030201
Addend == <<2055, 1541, 1027, 513>>

RelativeEntries ==
    { [rtype |-> "R_AMD64_RELATIVE", offset |-> U64(8), addend |-> a] :
        a \in {None, Some(Addend)} }

OtherEntries ==
    { [rtype |-> "R_AMD64_64", offset |-> U64(8), addend |-> Some(Addend)],
      [rtype |-> "R_AMD64_GLOB_DAT", offset |-> U64Max, addend |-> None] }

RelocationEntries == RelativeEntries \cup OtherEntries

KernelImages ==
    { [headers |-> hs, relocs |-> rs, entry_point |-> U64(2)] :
        hs \in SeqsUpTo(ProgramHeaders, MaxHeaders),
        rs \in SeqsUpTo(RelocationEntries, MaxRelocs) }

NoImage == [headers |-> <<>>, relocs |-> <<>>, entry_point |-> U64Zero]

\* Graphics modes: resolution, stride in pixels, framebuffer address.
GraphicsModes ==
    { [framebuffer |-> 32768, width |-> 800, height |-> 600, stride |-> 832],
      [framebuffer |-> 49152, width |-> 1024, height |-> 768, stride |-> 1024] }

NoMode == [framebuffer |-> 0, width |-> 0, height |-> 0, stride |-> 0]

\* Memory before the loader runs: all zero, or all 0xCC.
InitialMemories == { [a \in 0..(MemSize - 1) |-> b] : b \in {0, 204} }

---------------------------------------------------------------------------
(* KernelLoader: the ElfLoader callbacks.                                  *)

Ok == "Ok"

KernelLoaderNew == [base |-> U64Zero, regions |-> <<>>]

\* A store of the low four bytes only, as through a *mut u32.
StoreLowHalf(m, address, value) ==
    [a \in DOMAIN m |->
        IF a >= address /\ a < address + 4
        THEN BytesOfU64(value)[a - address + 1]
        ELSE m[a]]

\* `*address = value` for a *mut u64: eight bytes, least significant first.
StoreU64(m, address, value) ==
    [a \in DOMAIN m |->
        IF a >= address /\ a < address + 8
        THEN BytesOfU64(value)[a - address + 1]
        ELSE m[a]]

\* A copy that stops one byte short of region.len().
CopyOneShort(m, start, region) ==
    [a \in DOMAIN m |->
        IF a >= start /\ a < start + Len(region) - 1
        THEN region[a - start + 1]
        ELSE m[a]]

\* ptr::copy_nonoverlapping(region.as_ptr(), start as *mut u8, region.len()).
CopyNonoverlapping(m, start, region) ==
    [a \in DOMAIN m |->
        IF a >= start /\ a < start + Len(region)
        THEN region[a - start + 1]
        ELSE m[a]]

\* A match that also patches the absolute 64-bit kind.
IsRelativeOrAbsolute(rtype) == rtype \in {"R_AMD64_RELATIVE", "R_AMD64_64"}

\* The arm of `match entry.rtype` taken: TRUE for x86_64(R_AMD64_RELATIVE).
IsRelative(rtype) == rtype = "R_AMD64_RELATIVE"

\* `entry.addend.unwrap_or(0)`: a missing addend read as zero.
AddendOrZero(addend) ==
    IF addend = None
    THEN [ret |-> "Ok", value |-> U64Zero]
    ELSE [ret |-> "Ok", value |-> addend[1]]

\* `entry.addend.ok_or(UnsupportedRelocationEntry)?`
AddendOrErr(addend) ==
    IF addend = None
    THEN [ret |-> "UnsupportedRelocationEntry", value |-> U64Zero]
    ELSE [ret |-> Ok, value |-> addend[1]]

\* KernelLoader::relocate: [panicked, ret, mem].
Relocate(ld, m, e, checks) ==
    LET address == AddU64(ld.base, e.offset)
        addend == AddendOrErr(e.addend)
        value == AddU64(ld.base, addend.value)
    IN  IF checks /\ address.overflow
        THEN [panicked |-> TRUE, ret |-> "none", mem |-> m]
        ELSE IF ~IsRelative(e.rtype)
        THEN [panicked |-> FALSE, ret |-> Ok, mem |-> m]
        ELSE IF addend.ret # Ok
        THEN [panicked |-> FALSE, ret |-> addend.ret, mem |-> m]
        ELSE IF checks /\ value.overflow
        THEN [panicked |-> TRUE, ret |-> "none", mem |-> m]
        ELSE [panicked |-> FALSE, ret |-> Ok,
              mem |-> StoreU64(m, NatOf(address.val), value.val)]

\* `self.base + base` and `self.base + base + region.len() as u64`.
LoadRange(ld, virtual_addr, len) ==
    LET start == AddU64(ld.base, virtual_addr)
        end == AddU64(start.val, U64(len))
    IN  [start |-> start.val, end |-> end.val,
         overflow |-> start.overflow \/ end.overflow]

\* KernelLoader::load: [panicked, ret, loader, mem].
Load(ld, m, virtual_addr, region, checks) ==
    LET range == LoadRange(ld, virtual_addr, Len(region))
    IN  IF checks /\ range.overflow
        THEN [panicked |-> TRUE, ret |-> "none", loader |-> ld, mem |-> m]
        ELSE [panicked |-> FALSE, ret |-> Ok,
              loader |-> [ld EXCEPT !.regions =
                            Append(@, RegionNew("Reserved", range.start, range.end))],
              mem |-> CopyNonoverlapping(m, NatOf(range.start), region)]

\* KernelLoader::tls
Tls == "UnsupportedSectionData"

---------------------------------------------------------------------------
(* main: the boot sequence.                                                *)

StageOrder ==
    <<"Init", "LocateDescription", "SnapshotMemory", "LoadKernel",
      "ProbeGraphics", "Finalize", "ExitServices", "Transfer">>

\* The boot services exited before the graphics descriptor is stored and the
\* last messages are logged.
StageAfterExitEarly(stage) ==
    CASE stage = "Init" -> "LocateDescription"
      [] stage = "LocateDescription" -> "SnapshotMemory"
      [] stage = "SnapshotMemory" -> "LoadKernel"
      [] stage = "LoadKernel" -> "ProbeGraphics"
      [] stage = "ProbeGraphics" -> "ExitServices"
      [] stage = "ExitServices" -> "Finalize"
      [] stage = "Finalize" -> "Transfer"
      [] stage = "Transfer" -> "InKernel"

\* The statement main runs after a stage: the next stage, or the kernel.
StageAfter(stage) ==
    CASE stage = "Init" -> "LocateDescription"
      [] stage = "LocateDescription" -> "SnapshotMemory"
      [] stage = "SnapshotMemory" -> "LoadKernel"
      [] stage = "LoadKernel" -> "ProbeGraphics"
      [] stage = "ProbeGraphics" -> "Finalize"
      [] stage = "Finalize" -> "ExitServices"
      [] stage = "ExitServices" -> "Transfer"
      [] stage = "Transfer" -> "InKernel"

\* A failure that is dropped (`.ok()`, `let _ =`) instead of unwrapped.
ContinueAlways(ok, next) == next

\* expect()/unwrap() and the overflow and allocation-error panics: on failure
\* control goes to the panic handler, which never returns.
ContinueOrPanic(ok, next) == IF ok THEN next ELSE "Panicked"

\* A step that calls a firmware service (console, boot services, allocator).
FirmwareUse == fwAfterExit' = (fwAfterExit \/ ~bootServicesActive)

StageDone(stage) == stages' = Append(stages, stage)

Fail(cause, next) ==
    /\ pc' = ContinueOrPanic(FALSE, next)
    /\ fatal' = cause
    /\ FirmwareUse

Init ==
    /\ pc = "Init"
    /\ overflowChecks \in BOOLEAN
    /\ mem \in InitialMemories
    /\ memMap = <<>>
    /\ image = NoImage
    /\ loader = KernelLoaderNew
    /\ hdrIdx = 1
    /\ relIdx = 1
    /\ lastCall = [op |-> "none", ret |-> "none"]
    /\ info = BootInfoNew
    /\ entry = U64Zero
    /\ gop = NoMode
    /\ bootServicesActive = TRUE
    /\ handoff = [passed |-> FALSE, entry |-> U64Zero, info |-> BootInfoNew]
    /\ stages = <<>>
    /\ fwAfterExit = FALSE
    /\ fatal = "none"

\* allocator::init, stdout.clear(), "Loading kernel..."
MainInit ==
    /\ pc = "Init"
    /\ pc' = StageAfter("Init")
    /\ StageDone("Init")
    /\ FirmwareUse
    /\ UNCHANGED <<overflowChecks, mem, memMap, image, loader, hdrIdx, relIdx,
                   lastCall, info, entry, gop, bootServicesActive, handoff, fatal>>

\* The scan of the configuration table for ACPI_GUID | ACPI2_GUID.
LocateDescription ==
    /\ pc = "LocateDescription"
    /\ \E found \in BOOLEAN :
        IF found
        THEN /\ pc' = ContinueOrPanic(TRUE, StageAfter("LocateDescription"))
             /\ StageDone("LocateDescription")
             /\ FirmwareUse
             /\ UNCHANGED fatal
        ELSE /\ Fail("NoSystemDescriptionTable", StageAfter("LocateDescription"))
             /\ UNCHANGED stages
    /\ UNCHANGED <<overflowChecks, mem, memMap, image, loader, hdrIdx, relIdx,
                   lastCall, info, entry, gop, bootServicesActive, handoff>>

\* info.regions = load_regions(&system_table)
SnapshotMemory ==
    /\ pc = "SnapshotMemory"
    /\ \/ \E map \in MemoryMaps :
            LET r == LoadRegions(map, overflowChecks)
            IN  /\ memMap' = map
                /\ IF r.panicked
                   THEN /\ Fail("ArithmeticOverflow", StageAfter("SnapshotMemory"))
                        /\ UNCHANGED <<info, stages>>
                   ELSE /\ pc' = ContinueOrPanic(TRUE, StageAfter("SnapshotMemory"))
                        /\ info' = [info EXCEPT !.regions = r.regions]
                        /\ StageDone("SnapshotMemory")
                        /\ FirmwareUse
                        /\ UNCHANGED fatal
       \/ /\ \E cause \in {"MemoryMapUnavailable", "OutOfMemory"} :
                Fail(cause, StageAfter("SnapshotMemory"))
          /\ UNCHANGED <<memMap, info, stages>>
    /\ UNCHANGED <<overflowChecks, mem, image, loader, hdrIdx, relIdx,
                   lastCall, entry, gop, bootServicesActive, handoff>>

\* load_kernel up to the construction of the KernelLoader: the file is read
\* and parsed.
ReadKernel ==
    /\ pc = "LoadKernel"
    /\ \/ \E img \in KernelImages :
            /\ image' = img
            /\ loader' = KernelLoaderNew
            /\ hdrIdx' = 1
            /\ relIdx' = 1
            /\ pc' = ContinueOrPanic(TRUE, "Allocate")
            /\ FirmwareUse
            /\ UNCHANGED fatal
       \/ /\ \E cause \in {"KernelUnreadable", "KernelUnparsable", "OutOfMemory"} :
                Fail(cause, "Allocate")
          /\ UNCHANGED <<image, loader, hdrIdx, relIdx>>
    /\ UNCHANGED <<overflowChecks, mem, memMap, lastCall, info, entry, gop,
                   bootServicesActive, handoff, stages>>

---------------------------------------------------------------------------
(* binary.load(&mut loader): the ELF library calls allocate once, then     *)
(* walks the program headers in order (load for a loadable one, tls for a  *)
(* TLS one, nothing for the rest), then hands every relocation entry to    *)
(* relocate; the first Err ends the walk and is returned.                  *)

HasHeader == hdrIdx <= Len(image.headers)

HasReloc == relIdx <= Len(image.relocs)

Called(op, ret) == lastCall' = [op |-> op, ret |-> ret]

\* KernelLoader::allocate: logs every loadable header.
Allocate ==
    /\ pc = "Allocate"
    /\ pc' = "LoadHeaders"
    /\ Called("allocate", Ok)
    /\ FirmwareUse
    /\ UNCHANGED <<overflowChecks, mem, memMap, image, loader, hdrIdx, relIdx,
                   info, entry, gop, bootServicesActive, handoff, stages, fatal>>

\* KernelLoader::load on the next program header, a loadable one.
LoadSegment ==
    /\ pc = "LoadHeaders"
    /\ HasHeader
    /\ image.headers[hdrIdx].type = "Load"
    /\ LET h == image.headers[hdrIdx]
           r == Load(loader, mem, h.virtual_addr, h.data, overflowChecks)
       IN  \/ /\ ~r.panicked
              /\ loader' = r.loader
              /\ mem' = r.mem
              /\ Called("load", r.ret)
              /\ hdrIdx' = hdrIdx + 1
              /\ FirmwareUse
              /\ UNCHANGED <<pc, fatal>>
           \/ /\ r.panicked
              /\ Fail("ArithmeticOverflow", "LoadHeaders")
              /\ UNCHANGED <<loader, mem, lastCall, hdrIdx>>
           \/ /\ Fail("OutOfMemory", "LoadHeaders")
              /\ UNCHANGED <<loader, mem, lastCall, hdrIdx>>
    /\ UNCHANGED <<overflowChecks, memMap, image, relIdx, info, entry, gop,
                   bootServicesActive, handoff, stages>>

\* KernelLoader::tls on the next program header, a TLS one.
TlsSegment ==
    /\ pc = "LoadHeaders"
    /\ HasHeader
    /\ image.headers[hdrIdx].type = "Tls"
    /\ Called("tls", Tls)
    /\ pc' = "LoadFailed"
    /\ FirmwareUse
    /\ UNCHANGED <<overflowChecks, mem, memMap, image, loader, hdrIdx, relIdx,
                   info, entry, gop, bootServicesActive, handoff, stages, fatal>>

\* A program header of another type is skipped.
SkipHeader ==
    /\ pc = "LoadHeaders"
    /\ HasHeader
    /\ image.headers[hdrIdx].type \notin {"Load", "Tls"}
    /\ hdrIdx' = hdrIdx + 1
    /\ UNCHANGED <<pc, overflowChecks, mem, memMap, image, loader, relIdx, lastCall,
                   info, entry, gop, bootServicesActive, handoff, stages,
                   fwAfterExit, fatal>>

HeadersDone ==
    /\ pc = "LoadHeaders"
    /\ ~HasHeader
    /\ pc' = "Relocate"
    /\ UNCHANGED <<overflowChecks, mem, memMap, image, loader, hdrIdx, relIdx,
                   lastCall, info, entry, gop, bootServicesActive, handoff, stages,
                   fwAfterExit, fatal>>

\* KernelLoader::relocate on the next relocation entry.
RelocateEntry ==
    /\ pc = "Relocate"
    /\ HasReloc
    /\ LET r == Relocate(loader, mem, image.relocs[relIdx], overflowChecks)
       IN  IF r.panicked
           THEN /\ Fail("ArithmeticOverflow", "Relocate")
                /\ UNCHANGED <<mem, lastCall, relIdx>>
           ELSE /\ mem' = r.mem
                /\ Called("relocate", r.ret)
                /\ relIdx' = IF r.ret = Ok THEN relIdx + 1 ELSE relIdx
                /\ pc' = IF r.ret = Ok THEN "Relocate" ELSE "LoadFailed"
                /\ FirmwareUse
                /\ UNCHANGED fatal
    /\ UNCHANGED <<overflowChecks, memMap, image, loader, hdrIdx, info, entry, gop,
                   bootServicesActive, handoff, stages>>

RelocationsDone ==
    /\ pc = "Relocate"
    /\ ~HasReloc
    /\ pc' = "PublishKernel"
    /\ UNCHANGED <<overflowChecks, mem, memMap, image, loader, hdrIdx, relIdx,
                   lastCall, info, entry, gop, bootServicesActive, handoff, stages,
                   fwAfterExit, fatal>>

\* binary.load returned Err: .expect("Failed to load kernel") panics.
LoadFailed ==
    /\ pc = "LoadFailed"
    /\ Fail("KernelLoadFailed", "PublishKernel")
    /\ UNCHANGED <<overflowChecks, mem, memMap, image, loader, hdrIdx, relIdx,
                   lastCall, info, entry, gop, bootServicesActive, handoff, stages>>

\* The rest of load_kernel: the loader's regions are leaked into
\* info.kernel_regions and the entry point is returned; main logs it.
PublishKernel ==
    /\ pc = "PublishKernel"
    /\ info' = [info EXCEPT !.kernel_regions = RegionsNew(loader.regions)]
    /\ entry' = image.entry_point
    /\ pc' = StageAfter("LoadKernel")
    /\ StageDone("LoadKernel")
    /\ FirmwareUse
    /\ UNCHANGED <<overflowChecks, mem, memMap, image, loader, hdrIdx, relIdx,
                   lastCall, gop, bootServicesActive, handoff, fatal>>

---------------------------------------------------------------------------
(* main, continued: graphics, exit of the boot services, transfer.         *)

\* `mode_info.stride() as u32 * 4`
StrideBytes(stride) == stride * 4

\* The GOP handle is looked up and the protocol opened; the mode is read.
ProbeGraphics ==
    /\ pc = "ProbeGraphics"
    /\ \/ \E mode \in GraphicsModes :
            /\ gop' = mode
            /\ pc' = ContinueOrPanic(TRUE, StageAfter("ProbeGraphics"))
            /\ StageDone("ProbeGraphics")
            /\ FirmwareUse
            /\ UNCHANGED fatal
       \/ /\ Fail("DisplayProtocolMissing", StageAfter("ProbeGraphics"))
          /\ UNCHANGED <<gop, stages>>
    /\ UNCHANGED <<overflowChecks, mem, memMap, image, loader, hdrIdx, relIdx,
                   lastCall, info, entry, bootServicesActive, handoff>>

\* info.graphics is filled in and the last messages are logged.
Finalize ==
    /\ pc = "Finalize"
    /\ info' = [info EXCEPT !.graphics =
                  [framebuffer |-> gop.framebuffer, width |-> gop.width,
                   height |-> gop.height, stride |-> StrideBytes(gop.stride)]]
    /\ pc' = StageAfter("Finalize")
    /\ StageDone("Finalize")
    /\ FirmwareUse
    /\ UNCHANGED <<overflowChecks, mem, memMap, image, loader, hdrIdx, relIdx,
                   lastCall, entry, gop, bootServicesActive, handoff, fatal>>

\* boot::exit_boot_services(MemoryType::BOOT_SERVICES_DATA)
ExitServices ==
    /\ pc = "ExitServices"
    /\ FirmwareUse
    /\ bootServicesActive' = FALSE
    /\ pc' = StageAfter("ExitServices")
    /\ StageDone("ExitServices")
    /\ UNCHANGED <<overflowChecks, mem, memMap, image, loader, hdrIdx, relIdx,
                   lastCall, info, entry, gop, handoff, fatal>>

\* enter_kernel(entry, &info)
Transfer ==
    /\ pc = "Transfer"
    /\ handoff' = [passed |-> TRUE, entry |-> entry, info |-> info]
    /\ pc' = StageAfter("Transfer")
    /\ StageDone("Transfer")
    /\ UNCHANGED <<overflowChecks, mem, memMap, image, loader, hdrIdx, relIdx,
                   lastCall, info, entry, gop, bootServicesActive, fwAfterExit, fatal>>

\* enter_kernel is not expected to return; if it does, main reaches `loop {}`.
KernelReturns ==
    /\ pc = "InKernel"
    /\ pc' = "IdleLoop"
    /\ UNCHANGED <<overflowChecks, mem, memMap, image, loader, hdrIdx, relIdx,
                   lastCall, info, entry, gop, bootServicesActive, handoff, stages,
                   fwAfterExit, fatal>>

\* `loop {}` at the end of main.
IdleLoop ==
    /\ pc = "IdleLoop"
    /\ UNCHANGED vars

\* `loop {}` of the panic handler.
PanicLoop ==
    /\ pc = "Panicked"
    /\ UNCHANGED vars

Next ==
    \/ MainInit
    \/ LocateDescription
    \/ SnapshotMemory
    \/ ReadKernel
    \/ Allocate
    \/ LoadSegment
    \/ TlsSegment
    \/ SkipHeader
    \/ HeadersDone
    \/ RelocateEntry
    \/ RelocationsDone
    \/ LoadFailed
    \/ PublishKernel
    \/ ProbeGraphics
    \/ Finalize
    \/ ExitServices
    \/ Transfer
    \/ KernelReturns
    \/ IdleLoop
    \/ PanicLoop

Spec == Init /\ [][Next]_vars

---------------------------------------------------------------------------
(* Properties.                                                             *)

IsPrefix(s, t) == Len(s) <= Len(t) /\ \A i \in 1..Len(s) : s[i] = t[i]

\* The u64 that eight bytes, least significant first, encode.
U64OfBytes(b) ==
    <<b[8] * 256 + b[7], b[6] * 256 + b[5], b[4] * 256 + b[3], b[2] * 256 + b[1]>>

BytesAt(m, a, n) == [i \in 1..n |-> m[a + i - 1]]

CurrentReloc == image.relocs[relIdx]

CurrentHeader == image.headers[hdrIdx]

\* C1: a call of relocate on a base-relative entry with an addend returns Ok,
\* leaves the 8 bytes at base + offset holding base + addend, and changes no
\* other byte of memory.
C1_RelativeWritesBasePlusAddend ==
    [][ (/\ pc = "Relocate"
         /\ HasReloc
         /\ CurrentReloc.rtype = "R_AMD64_RELATIVE"
         /\ CurrentReloc.addend # None)
        => LET target == AddU64(loader.base, CurrentReloc.offset)
               value == AddU64(loader.base, CurrentReloc.addend[1])
               at == NatOf(target.val)
           IN  /\ lastCall' = [op |-> "relocate", ret |-> "Ok"]
               /\ pc' = "Relocate"
               /\ relIdx' = relIdx + 1
               /\ ~target.overflow
               /\ ~value.overflow
               /\ U64OfBytes(BytesAt(mem', at, 8)) = value.val
               /\ \A a \in DOMAIN mem :
                    (a < at \/ a >= at + 8) => mem'[a] = mem[a]
      ]_vars

\* C1 witness: a base-relative entry with addend 0x0807060504030201 at offset
\* 8 has been applied to memory filled with 0xCC.
C1_Witness ==
    /\ lastCall = [op |-> "relocate", ret |-> "Ok"]
    /\ relIdx = 2
    /\ image.relocs[1].rtype = "R_AMD64_RELATIVE"
    /\ BytesAt(mem, 8, 8) = <<1, 2, 3, 4, 5, 6, 7, 8>>
    /\ mem[7] = 204
    /\ mem[16] = 204

\* C2: a call of relocate on an entry of any other kind, with or without an
\* addend, returns Ok and changes neither memory nor the loader's regions;
\* the walk over the relocation entries goes on.
C2_OtherKindsAreNoOps ==
    [][ (/\ pc = "Relocate"
         /\ HasReloc
         /\ CurrentReloc.rtype # "R_AMD64_RELATIVE")
        => /\ lastCall' = [op |-> "relocate", ret |-> "Ok"]
           /\ mem' = mem
           /\ loader' = loader
           /\ pc' = "Relocate"
           /\ relIdx' = relIdx + 1
           /\ fatal' = "none"
      ]_vars

\* C2 witness: the kernel was loaded and handed over although its image holds
\* an R_AMD64_64 entry with an addend, and memory at its offset is untouched.
C2_Witness ==
    /\ handoff.passed
    /\ Len(image.relocs) = 1
    /\ image.relocs[1].rtype = "R_AMD64_64"
    /\ image.relocs[1].addend # None
    /\ lastCall = [op |-> "relocate", ret |-> "Ok"]
    /\ BytesAt(mem, 8, 8) = [i \in 1..8 |-> 204]

\* C3 (the claim as stated): once tls has been called it has returned
\* UnsupportedSectionData, and no call of load has appended a region or
\* written a byte of memory.
C3_TlsFailsBeforeAnyCopy ==
    lastCall.op = "tls"
        => /\ lastCall.ret = "UnsupportedSectionData"
           /\ loader.regions = <<>>
           /\ mem \in InitialMemories

\* C4 (the claim as stated): after load_kernel returns, kernel_regions holds
\* one Reserved region per loadable program header, in order, covering
\* [base + virtual_addr, base + virtual_addr + mem_size).
C4_KernelRegionsCoverMemSize ==
    (\E i \in 1..Len(stages) : stages[i] = "LoadKernel")
        => LET loads == SelectSeq(image.headers, LAMBDA h : h.type = "Load")
               start(h) == AddU64(loader.base, h.virtual_addr).val
           IN  info.kernel_regions =
                 [i \in 1..Len(loads) |->
                    [kind |-> "Reserved",
                     start |-> start(loads[i]),
                     end |-> AddU64(start(loads[i]), loads[i].mem_size).val]]

\* C5 (the claim as stated): for every memory map the firmware returns,
\* load_regions returns one region per descriptor, in order, Available for
\* usable RAM and Reserved otherwise, from phys_start to
\* phys_start + page_count * 4096.
C5_OneRegionPerDescriptor ==
    memMap # <<>>
        => /\ \E i \in 1..Len(stages) : stages[i] = "SnapshotMemory"
           /\ Len(info.regions) = Len(memMap)
           /\ \A i \in 1..Len(memMap) :
                LET d == memMap[i]
                    bytes == MulU64(d.page_count, 4096)
                    end == AddU64(d.phys_start, bytes.val)
                IN  /\ info.regions[i].kind =
                         (IF d.ty = "CONVENTIONAL" THEN "Available" ELSE "Reserved")
                    /\ info.regions[i].start = d.phys_start
                    /\ ~bytes.overflow
                    /\ ~end.overflow
                    /\ info.regions[i].end = end.val

\* C6 (the claim as stated): every region produced by load_regions or by
\* KernelLoader::load has start <= end.
C6_StartLeEnd ==
    /\ \A i \in 1..Len(info.regions) :
         LeU64(info.regions[i].start, info.regions[i].end)
    /\ \A i \in 1..Len(loader.regions) :
         LeU64(loader.regions[i].start, loader.regions[i].end)
    /\ \A i \in 1..Len(info.kernel_regions) :
         LeU64(info.kernel_regions[i].start, info.kernel_regions[i].end)

\* C7: the stages completed are always a prefix of the fixed order (so each
\* runs at most once, in that order); no firmware service is used once the
\* boot services have been exited, after which only the transfer to the
\* kernel and what follows it run; and enter_kernel is called after every
\* earlier stage, with the entry point and with a BootInfo holding the regions
\* of the memory map, the loader's kernel regions and the graphics mode read.
C7_StagesInOrderNoFirmwareAfterExit ==
    /\ IsPrefix(stages, StageOrder)
    /\ ~fwAfterExit
    /\ ~bootServicesActive => pc \in {"Transfer", "InKernel", "IdleLoop"}
    /\ handoff.passed =>
         /\ ~bootServicesActive
         /\ stages = StageOrder
         /\ handoff.entry = image.entry_point
         /\ handoff.info.regions = LoadRegions(memMap, overflowChecks).regions
         /\ handoff.info.kernel_regions = loader.regions
         /\ handoff.info.graphics =
              [framebuffer |-> gop.framebuffer, width |-> gop.width,
               height |-> gop.height, stride |-> gop.stride * 4]
         /\ gop \in GraphicsModes

\* C7 witness: the kernel has been entered with two firmware regions, a
\* kernel region and the 1024 x 768 mode.
C7_Witness ==
    /\ pc = "InKernel"
    /\ handoff.passed
    /\ Len(handoff.info.regions) = 2
    /\ Len(handoff.info.kernel_regions) = 1
    /\ handoff.info.graphics.width = 1024
    /\ handoff.info.graphics.stride = 4096

\* C8: a state-changing step never starts after a fatal condition has
\* occurred (the halt loop is never left and nothing is retried), and the step
\* in which a fatal condition occurs ends in the halt loop with the boot
\* services not exited, the kernel not entered and no stage completed by it.
C8_FatalHaltsForever ==
    [][ /\ fatal = "none"
        /\ fatal' # "none" =>
             /\ pc' = "Panicked"
             /\ bootServicesActive'
             /\ ~handoff'.passed
             /\ stages' = stages
      ]_vars

\* C8 witness: the display protocol is missing after the kernel was loaded
\* and relocated; the system is in the halt loop.
C8_Witness ==
    /\ fatal = "DisplayProtocolMissing"
    /\ pc = "Panicked"
    /\ Len(info.kernel_regions) = 2
    /\ bootServicesActive
    /\ ~handoff.passed

\* C9: a call of relocate on a base-relative entry without an addend returns
\* UnsupportedRelocationEntry and leaves memory unchanged; on an entry of any
\* other kind a missing addend is not an error.
C9_MissingAddendOnlyFailsRelative ==
    [][ (/\ pc = "Relocate"
         /\ HasReloc
         /\ CurrentReloc.addend = None)
        => IF CurrentReloc.rtype = "R_AMD64_RELATIVE"
           THEN /\ lastCall' = [op |-> "relocate", ret |-> "UnsupportedRelocationEntry"]
                /\ mem' = mem
                /\ pc' = "LoadFailed"
           ELSE /\ lastCall' = [op |-> "relocate", ret |-> "Ok"]
                /\ pc' = "Relocate"
      ]_vars

\* C9 witness: relocate has refused a base-relative entry without an addend,
\* and the 8 bytes at its offset still hold the 0xCC they held before.
C9_Witness ==
    /\ lastCall = [op |-> "relocate", ret |-> "UnsupportedRelocationEntry"]
    /\ image.relocs[relIdx].rtype = "R_AMD64_RELATIVE"
    /\ image.relocs[relIdx].addend = None
    /\ BytesAt(mem, 8, 8) = [i \in 1..8 |-> 204]

\* C10: a call of load that returns leaves the file bytes of the segment at
\* [base + vaddr, base + vaddr + len) and every other byte of memory as it
\* was, the bytes from file_size up to mem_size included.
C10_LoadCopiesFileBytesOnly ==
    [][ (/\ pc = "LoadHeaders"
         /\ HasHeader
         /\ CurrentHeader.type = "Load"
         /\ hdrIdx' = hdrIdx + 1)
        => LET at == NatOf(AddU64(loader.base, CurrentHeader.virtual_addr).val)
               n == Len(CurrentHeader.data)
           IN  /\ lastCall' = [op |-> "load", ret |-> "Ok"]
               /\ BytesAt(mem', at, n) = CurrentHeader.data
               /\ \A a \in DOMAIN mem :
                    (a < at \/ a >= at + n) => mem'[a] = mem[a]
      ]_vars

\* C10 witness: the segment with two file bytes and mem_size 4 has been
\* loaded at the top of memory that held 0xCC: its two file bytes are there
\* and the two bytes after them are still 0xCC.
C10_Witness ==
    /\ lastCall = [op |-> "load", ret |-> "Ok"]
    /\ hdrIdx = 2
    /\ image.headers[1].type = "Load"
    /\ image.headers[1].mem_size = U64(4)
    /\ LET at == NatOf(image.headers[1].virtual_addr)
       IN  BytesAt(mem, at, 4) = <<76, 70, 204, 204>>

====
